---------------------------- MODULE Spec2Model ----------------------------
(***************************************************************************)
(* Skill-graph validation and the optimizers that run on the skill graph   *)
(* (GS2_DP_MOH): GraphValidator (gs_graph_validation.py), the entry point  *)
(* (main.py), ImprovedMaxValuePathDP (gs_challenge1.py),                   *)
(* ImprovedAdaptabilityOptimizer (gs_challenge3.py) and                    *)
(* ImprovedSkillRecommender (gs_challenge5.py).                            *)
(*                                                                         *)
(* A skills_db is a Python dict: its keys in insertion order are SkillIds, *)
(* its values records with Pre_Reqs (a list), Valor, Tempo, Complexidade.  *)
(* A Python set of strings iterates in an order fixed per object but not   *)
(* by the language (string hashing is randomised per process): every such  *)
(* order is a sequence chosen nondeterministically.                        *)
(***************************************************************************)
EXTENDS Integers, Sequences, FiniteSets, TLC

VARIABLES
    skills_db,        \* the skill graph: [SkillIds -> skill record]
    all_skill_ids,    \* GraphValidator.all_skill_ids: the key set, in its iteration order
    pc,               \* which call has run
    validation,       \* outcome of GraphValidator.validate_graph
    run,              \* outcome of an optimizer run (entry point or direct call)
    solver,           \* the ImprovedMaxValuePathDP object and the budgets it was called with
    subset,           \* the ImprovedAdaptabilityOptimizer inputs and the three solvers' results
    recommender,      \* the ImprovedSkillRecommender inputs, its dp table and its result
    np_random         \* numpy's global generator: the seed it was set to, the draws since

vars == <<skills_db, all_skill_ids, pc, validation, run, solver, subset,
          recommender, np_random>>

---------------------------------------------------------------------------
(* Bounds of the model *)

\* Total number of Pre_Reqs entries in a graph given to the validator.
MaxEdges == 4

\* Keys of skills_db, in dict insertion order.
SkillIds == <<"H1", "H2", "S1">>

\* An identifier that is no key of skills_db (a dangling prerequisite).
MissingId == "S9"

Keys == {SkillIds[i] : i \in 1..Len(SkillIds)}

Ids == Keys \cup {MissingId}

\* Python's None.
None == "None"

\* The value of a state variable that no call has written yet.
Idle == "idle"

---------------------------------------------------------------------------
(* Sequence helpers *)

Range(s) == {s[i] : i \in 1..Len(s)}

Contains(s, x) == \E i \in 1..Len(s) : s[i] = x

NoDup(s) == \A i, j \in 1..Len(s) : i # j => s[i] # s[j]

\* The sequences without repetition over S, of length 0..n.
DistinctSeqs(S, n) ==
    UNION {{s \in [1..k -> S] : NoDup(s)} : k \in 0..n}

\* The orders in which a set can iterate.
Orders(S) == {s \in [1..Cardinality(S) -> S] : Range(s) = S}

\* list.insert(1, x)
Insert1(s, x) == <<Head(s)>> \o <<x>> \o Tail(s)

---------------------------------------------------------------------------
(* GraphValidator *)

Prereqs(db, n) == db[n].Pre_Reqs

\* _check_orphan_prereqs: (skill_id, missing prerequisite) pairs, in dict
\* order and, per skill, in Pre_Reqs order.
RECURSIVE OrphansFrom(_, _, _)
OrphansFrom(db, ids, i) ==
    IF i > Len(SkillIds) THEN <<>>
    ELSE LET skill_id == SkillIds[i]
             pr == Prereqs(db, skill_id)
             mine == [k \in 1..Len(pr) |-> <<skill_id, pr[k]>>]
         IN SelectSeq(mine, LAMBDA e : e[2] \notin ids) \o OrphansFrom(db, ids, i + 1)

check_orphan_prereqs(db, ids) == OrphansFrom(db, Range(ids), 1)

WHITE == 0
GRAY == 1
BLACK == 2

\* The reconstruction loop of dfs_visit:
\*   while parent[current] and parent[current] != prereq: ... cycle.insert(1, current)
RECURSIVE ClimbParents(_, _, _, _)
ClimbParents(parent, current, prereq, cycle) ==
    IF parent[current] # None /\ parent[current] # prereq
    THEN ClimbParents(parent, parent[current], prereq, Insert1(cycle, parent[current]))
    ELSE cycle

ReconstructCycle(parent, node, prereq) ==
    Append(ClimbParents(parent, node, prereq, <<prereq, node>>), prereq)

\* dfs_visit(node), from the i-th prerequisite on.  color[prereq] on an
\* identifier that is no key raises KeyError.
RECURSIVE DfsFrom(_, _, _, _, _)
DfsFrom(db, node, i, color, parent) ==
    LET prereqs == Prereqs(db, node) IN
    IF i > Len(prereqs)
    THEN [raised |-> FALSE, has_cycle |-> FALSE, path |-> <<>>,
          color |-> [color EXCEPT ![node] = BLACK], parent |-> parent]
    ELSE LET prereq == prereqs[i] IN
         IF prereq \notin DOMAIN color
         THEN [raised |-> TRUE, has_cycle |-> FALSE, path |-> <<>>,
               color |-> color, parent |-> parent]
         ELSE IF color[prereq] = GRAY
         THEN [raised |-> FALSE, has_cycle |-> TRUE,
               path |-> ReconstructCycle(parent, node, prereq),
               color |-> color, parent |-> parent]
         ELSE IF color[prereq] = WHITE
         THEN LET p2 == [parent EXCEPT ![prereq] = node]
                  r == DfsFrom(db, prereq, 1, [color EXCEPT ![prereq] = GRAY], p2)
              IN IF r.raised \/ r.has_cycle THEN r
                 ELSE DfsFrom(db, node, i + 1, r.color, r.parent)
         ELSE DfsFrom(db, node, i + 1, color, parent)

dfs_visit(db, node, color, parent) ==
    DfsFrom(db, node, 1, [color EXCEPT ![node] = GRAY], parent)

\* The loop of _detect_cycles over all_skill_ids.
RECURSIVE DetectFrom(_, _, _, _, _)
DetectFrom(db, ids, i, color, parent) ==
    IF i > Len(ids)
    THEN [raised |-> FALSE, has_cycle |-> FALSE, path |-> <<>>]
    ELSE IF color[ids[i]] = WHITE
    THEN LET r == dfs_visit(db, ids[i], color, parent) IN
         IF r.raised \/ r.has_cycle
         THEN [raised |-> r.raised, has_cycle |-> r.has_cycle, path |-> r.path]
         ELSE DetectFrom(db, ids, i + 1, r.color, r.parent)
    ELSE DetectFrom(db, ids, i + 1, color, parent)

\* A detector that starts its search at the first identifier only.
detect_cycles_FirstRootOnly(db, ids) ==
    LET r == dfs_visit(db, ids[1], [s \in Range(ids) |-> WHITE], [s \in Range(ids) |-> None])
    IN [raised |-> r.raised, has_cycle |-> r.has_cycle, path |-> r.path]

detect_cycles(db, ids) ==
    DetectFrom(db, ids, 1, [s \in Range(ids) |-> WHITE], [s \in Range(ids) |-> None])

\* The while loop of _topological_sort (Kahn).
RECURSIVE KahnLoop(_, _, _, _)
KahnLoop(db, queue, in_degree, topo_order) ==
    IF queue = <<>> THEN topo_order
    ELSE LET current == Head(queue)
             hit(k) == Contains(Prereqs(db, k), current)
             deg2 == [k \in DOMAIN in_degree |->
                         IF hit(k) THEN in_degree[k] - 1 ELSE in_degree[k]]
             ready == SelectSeq(SkillIds, LAMBDA k : hit(k) /\ deg2[k] = 0)
         IN KahnLoop(db, Tail(queue) \o ready, deg2, Append(topo_order, current))

\* A sort whose queue starts with every node, whatever its in-degree.
topological_sort_UnfilteredQueue(db, ids) ==
    KahnLoop(db, ids, [s \in Range(ids) |-> Len(Prereqs(db, s))], <<>>)

topological_sort(db, ids) ==
    LET in_degree == [s \in Range(ids) |-> Len(Prereqs(db, s))]
        queue == SelectSeq(ids, LAMBDA s : in_degree[s] = 0)
    IN KahnLoop(db, queue, in_degree, <<>>)

NewReport ==
    [valid |-> TRUE, cycles |-> <<>>, orphan_nodes |-> <<>>,
     missing_prereqs |-> <<>>, topological_order |-> <<>>]

\* What a call left behind: raised (an exception escaped, so nothing was
\* returned), ret and report (the returned pair), executed (the checks that ran).
Outcome(raised, ret, report, executed) ==
    [raised |-> raised, ret |-> ret, report |-> report, executed |-> executed]

\* validate_graph, from the cycle check on.  The "return False, report" of the
\* cycle branch is inside "if verbose:".
ValidateFromCycles(db, ids, verbose, report, executed) ==
    LET d == detect_cycles(db, ids)
        ex2 == Append(executed, "cycles")
    IN IF d.raised THEN Outcome(TRUE, FALSE, report, ex2)
       ELSE LET rep2 == IF d.has_cycle
                        THEN [report EXCEPT !.valid = FALSE, !.cycles = d.path]
                        ELSE report
            IN IF d.has_cycle /\ verbose THEN Outcome(FALSE, FALSE, rep2, ex2)
               ELSE Outcome(FALSE, TRUE,
                            [rep2 EXCEPT !.topological_order = topological_sort(db, ids)],
                            Append(ex2, "topo"))

\* A validator that keeps one report for all of its calls and adds to it.
validate_graph_SharedReport(db, ids, verbose) ==
    LET orphans == check_orphan_prereqs(db, ids)
        kept == IF pc = "validated" THEN validation.out.report ELSE NewReport
        rep1 == IF orphans # <<>>
                THEN [kept EXCEPT !.valid = FALSE, !.orphan_nodes = @ \o orphans]
                ELSE kept
    IN IF orphans # <<>> /\ verbose
       THEN Outcome(FALSE, FALSE, rep1, <<"orphans">>)
       ELSE ValidateFromCycles(db, ids, verbose, rep1, <<"orphans">>)

\* validate_graph.  The "return False, report" of the orphan branch is inside
\* "if verbose:".
validate_graph(db, ids, verbose) ==
    LET orphans == check_orphan_prereqs(db, ids)
        rep1 == IF orphans # <<>>
                THEN [NewReport EXCEPT !.valid = FALSE, !.orphan_nodes = orphans]
                ELSE NewReport
    IN IF orphans # <<>> /\ verbose
       THEN Outcome(FALSE, FALSE, rep1, <<"orphans">>)
       ELSE ValidateFromCycles(db, ids, verbose, rep1, <<"orphans">>)

---------------------------------------------------------------------------
(* ImprovedMaxValuePathDP (gs_challenge1.py) *)

\* _get_required_skills: the worklist loop.  skills_db[skill] on an identifier
\* that is no key raises KeyError.
RECURSIVE RequiredFrom(_, _, _)
RequiredFrom(db, to_process, required) ==
    IF to_process = <<>> THEN [raised |-> FALSE, required |-> required]
    ELSE LET skill == to_process[Len(to_process)]
             rest == SubSeq(to_process, 1, Len(to_process) - 1)
         IN IF skill \in required THEN RequiredFrom(db, rest, required)
            ELSE IF skill \notin DOMAIN db
                 THEN [raised |-> TRUE, required |-> required \cup {skill}]
                 ELSE RequiredFrom(db, rest \o Prereqs(db, skill), required \cup {skill})

get_required_skills(db, target) == RequiredFrom(db, <<target>>, {})

\* The while loop of ImprovedMaxValuePathDP._topological_sort.
RECURSIVE SolverKahnLoop(_, _, _, _, _)
SolverKahnLoop(db, required, queue, in_degree, result) ==
    IF queue = <<>> THEN result
    ELSE LET current == Head(queue)
             hit(k) == Contains(Prereqs(db, k), current)
             deg2 == [k \in DOMAIN in_degree |->
                         IF hit(k) THEN in_degree[k] - 1 ELSE in_degree[k]]
             ready == SelectSeq(required, LAMBDA k : hit(k) /\ deg2[k] = 0)
         IN SolverKahnLoop(db, required, Tail(queue) \o ready, deg2,
                           Append(result, current))

\* ImprovedMaxValuePathDP._topological_sort over required_skills (a list).
solver_topological_sort(db, required) ==
    LET in_degree == [s \in Range(required) |->
                         Len(SelectSeq(Prereqs(db, s), LAMBDA p : p \in Range(required)))]
        queue == SelectSeq(required, LAMBDA s : in_degree[s] = 0)
    IN SolverKahnLoop(db, required, queue, in_degree, <<>>)

RECURSIVE SumField(_, _, _)
SumField(db, path, field) ==
    IF path = <<>> THEN 0
    ELSE db[Head(path)][field] + SumField(db, Tail(path), field)

\* The summed field of every prerequisite entry of the skills of a list.
RECURSIVE SumOf_PerEdge(_, _, _)
SumOf_PerEdge(db, skills, field) ==
    IF skills = <<>> THEN 0
    ELSE SumField(db, Prereqs(db, Head(skills)), field)
         + SumOf_PerEdge(db, Tail(skills), field)

\* A minimum that charges a skill once for every skill that lists it as a
\* prerequisite, and the skills nobody lists once.
calculate_minimum_path_PerEdge(db, required) ==
    LET topo_order == solver_topological_sort(db, required)
        listed == SelectSeq(topo_order, LAMBDA s :
                     \A k \in Range(topo_order) : ~Contains(Prereqs(db, k), s))
        charge(field) ==
            SumField(db, listed, field)
            + SumOf_PerEdge(db, topo_order, field)
    IN <<charge("Tempo"), charge("Complexidade")>>

\* _calculate_minimum_path: <<total_time, total_complexity>> over the
\* topological order of the required skills.
calculate_minimum_path(db, required) ==
    LET topo_order == solver_topological_sort(db, required)
    IN <<SumField(db, topo_order, "Tempo"), SumField(db, topo_order, "Complexidade")>>

\* __init__: the solver object.  required is list(set): the closure in the
\* iteration order of the set.
NewSolver(db, target, max_states_per_cell, required) ==
    LET m == calculate_minimum_path(db, required) IN
    [target |-> target, max_states_per_cell |-> max_states_per_cell,
     required_skills |-> required,
     min_feasible_time |-> m[1], min_feasible_complexity |-> m[2]]

\* list.sort(key=valor, reverse=True): stable, descending.
RECURSIVE InsertByValor(_, _)
InsertByValor(sorted, st) ==
    IF sorted = <<>> THEN <<st>>
    ELSE IF Head(sorted).valor >= st.valor
         THEN <<Head(sorted)>> \o InsertByValor(Tail(sorted), st)
         ELSE <<st>> \o sorted

RECURSIVE SortByValorDesc(_)
SortByValorDesc(states) ==
    IF states = <<>> THEN <<>>
    ELSE InsertByValor(SortByValorDesc(SubSeq(states, 1, Len(states) - 1)),
                       states[Len(states)])

\* A pruning that truncates the list as it stands, without sorting it.
prune_dominated_states_KeepFirst(states, max_states_per_cell) ==
    IF Len(states) <= max_states_per_cell THEN states
    ELSE SubSeq(states, 1, max_states_per_cell)

\* _prune_dominated_states
prune_dominated_states(states, max_states_per_cell) ==
    IF Len(states) <= max_states_per_cell THEN states
    ELSE SubSeq(SortByValorDesc(states), 1, max_states_per_cell)

\* A dp table is a dict (t, c) -> list of states: a sequence of buckets in
\* insertion order.
BucketAt(dp, key) == IF \E i \in 1..Len(dp) : dp[i].key = key
                     THEN CHOOSE i \in 1..Len(dp) : dp[i].key = key
                     ELSE 0

\* new_dp[key].append(state)
DpAppend(dp, key, state) ==
    LET i == BucketAt(dp, key) IN
    IF i = 0 THEN Append(dp, [key |-> key, states |-> <<state>>])
    ELSE [dp EXCEPT ![i].states = Append(@, state)]

\* dp.items() with each bucket's states, flattened in iteration order.
RECURSIVE FlattenDp(_)
FlattenDp(dp) ==
    IF dp = <<>> THEN <<>>
    ELSE LET b == Head(dp) IN
         [k \in 1..Len(b.states) |-> [key |-> b.key, state |-> b.states[k]]]
             \o FlattenDp(Tail(dp))

\* An admission test that forgets the time budget.
Admits_NoTimeBudget(db, skill_id, item, max_time, max_complexity) ==
    /\ \A p \in Range(Prereqs(db, skill_id)) : p \in item.state.skills
    /\ skill_id \notin item.state.skills
    /\ item.key[2] + db[skill_id].Complexidade <= max_complexity

\* An admission test that forgets the prerequisites.
Admits_NoPrereqCheck(db, skill_id, item, max_time, max_complexity) ==
    /\ skill_id \notin item.state.skills
    /\ item.key[1] + db[skill_id].Tempo <= max_time
    /\ item.key[2] + db[skill_id].Complexidade <= max_complexity

\* An admission test that forgets the complexity budget.
Admits_NoComplexityBudget(db, skill_id, item, max_time, max_complexity) ==
    /\ \A p \in Range(Prereqs(db, skill_id)) : p \in item.state.skills
    /\ skill_id \notin item.state.skills
    /\ item.key[1] + db[skill_id].Tempo <= max_time

\* An admission test that asks the new sums to stay strictly below the budgets.
Admits_StrictBudget(db, skill_id, item, max_time, max_complexity) ==
    /\ \A p \in Range(Prereqs(db, skill_id)) : p \in item.state.skills
    /\ skill_id \notin item.state.skills
    /\ item.key[1] + db[skill_id].Tempo < max_time
    /\ item.key[2] + db[skill_id].Complexidade < max_complexity

\* Whether a state is extended by skill_id within the budgets.
Admits(db, skill_id, item, max_time, max_complexity) ==
    /\ \A p \in Range(Prereqs(db, skill_id)) : p \in item.state.skills
    /\ skill_id \notin item.state.skills
    /\ item.key[1] + db[skill_id].Tempo <= max_time
    /\ item.key[2] + db[skill_id].Complexidade <= max_complexity

\* The transition loop of solve_deterministic for one skill.
RECURSIVE AddTransitions(_, _, _, _, _, _)
AddTransitions(new_dp, items, db, skill_id, max_time, max_complexity) ==
    IF items = <<>> THEN new_dp
    ELSE LET it == Head(items)
             skill == db[skill_id]
             grown ==
                IF Admits(db, skill_id, it, max_time, max_complexity)
                THEN DpAppend(new_dp,
                              <<it.key[1] + skill.Tempo, it.key[2] + skill.Complexidade>>,
                              [valor |-> it.state.valor + skill.Valor,
                               skills |-> it.state.skills \cup {skill_id},
                               path |-> Append(it.state.path, skill_id)])
                ELSE new_dp
         IN AddTransitions(grown, Tail(items), db, skill_id, max_time, max_complexity)

\* One iteration of "for skill_id in topo_order": copy, extend, prune.
ProcessSkill(dp, db, skill_id, max_time, max_complexity, cap) ==
    LET added == AddTransitions(dp, FlattenDp(dp), db, skill_id, max_time, max_complexity)
    IN [i \in 1..Len(added) |->
           [key |-> added[i].key,
            states |-> prune_dominated_states(added[i].states, cap)]]

RECURSIVE ProcessAll(_, _, _, _, _, _)
ProcessAll(dp, db, topo_order, max_time, max_complexity, cap) ==
    IF topo_order = <<>> THEN dp
    ELSE ProcessAll(ProcessSkill(dp, db, Head(topo_order), max_time, max_complexity, cap),
                    db, Tail(topo_order), max_time, max_complexity, cap)

\* The iterations of "for skill_id in topo_order", one record each: the skill,
\* new_dp as the transition loop leaves it, and the table after the pruning
\* loop (the dp of the next iteration).
RECURSIVE ProcessTrace(_, _, _, _, _, _)
ProcessTrace(dp, db, topo_order, max_time, max_complexity, cap) ==
    IF topo_order = <<>> THEN <<>>
    ELSE LET skill_id == Head(topo_order)
             pruned == ProcessSkill(dp, db, skill_id, max_time, max_complexity, cap)
         IN <<[skill_id |-> skill_id,
               new_dp |-> AddTransitions(dp, FlattenDp(dp), db, skill_id,
                                         max_time, max_complexity),
               dp |-> pruned]>>
            \o ProcessTrace(pruned, db, Tail(topo_order), max_time, max_complexity, cap)

InitialDp == <<[key |-> <<0, 0>>, states |-> <<[valor |-> 0, skills |-> {}, path |-> <<>>]>>]>>

\* The selection loop of solve_deterministic: the first state with the target
\* and the strictly greatest valor, or None.
RECURSIVE BestFrom(_, _, _, _)
BestFrom(items, target, best_value, best_solution) ==
    IF items = <<>> THEN best_solution
    ELSE LET st == Head(items).state IN
         IF target \in st.skills /\ st.valor > best_value
         THEN BestFrom(Tail(items), target, st.valor, <<st>>)
         ELSE BestFrom(Tail(items), target, best_value, best_solution)

\* The table solve_deterministic ends with.
final_dp(db, sv, max_time, max_complexity) ==
    ProcessAll(InitialDp, db, solver_topological_sort(db, sv.required_skills),
               max_time, max_complexity, sv.max_states_per_cell)

\* The failure record: the message names the target and the two budgets.
Infeasible(target, max_time, max_complexity) ==
    [success |-> FALSE,
     message |-> [target |-> target, T |-> max_time, C |-> max_complexity]]

\* solve_deterministic
solve_deterministic(db, sv, max_time, max_complexity) ==
    LET dp == final_dp(db, sv, max_time, max_complexity)
        best == BestFrom(FlattenDp(dp), sv.target, -1, <<>>)
    IN IF best # <<>>
       THEN [success |-> TRUE,
             path |-> best[1].path,
             total_value |-> best[1].valor,
             total_time |-> SumField(db, best[1].path, "Tempo"),
             total_complexity |-> SumField(db, best[1].path, "Complexidade")]
       ELSE Infeasible(sv.target, max_time, max_complexity)

\* gs_config.py: GLOBAL_SEED.
GLOBAL_SEED == 42

\* np.random.seed(seed): the global generator restarts from the seed.
np_random_seed(rng, seed) == [seed |-> seed, pos |-> 0]

\* np.random.uniform(0.9, 1.1): the generator is deterministic, the draw a
\* function of the seed and of the number of draws since it was set (here a
\* mixing function onto 90..110, in hundredths); the generator moves on.
np_random_uniform(rng) ==
    [value |-> 90 + ((rng.seed * 7 + rng.pos * 13) % 21),
     rng |-> [rng EXCEPT !.pos = @ + 1]]

\* for skill_id in path: total_value += base_value * np.random.uniform(0.9, 1.1)
RECURSIVE SimulatePath(_, _, _, _)
SimulatePath(db, path, rng, total_value) ==
    IF path = <<>> THEN [total_value |-> total_value, rng |-> rng]
    ELSE LET draw == np_random_uniform(rng)
         IN SimulatePath(db, Tail(path), draw.rng,
                         total_value + db[Head(path)].Valor * draw.value)

\* for i in range(n_simulations): ... simulated_values.append(total_value)
RECURSIVE SimulateAll(_, _, _, _, _)
SimulateAll(db, path, n, rng, simulated_values) ==
    IF n = 0 THEN [simulations |-> simulated_values, rng |-> rng]
    ELSE LET one == SimulatePath(db, path, rng, 0)
         IN SimulateAll(db, path, n - 1, one.rng,
                        Append(simulated_values, one.total_value))

RECURSIVE SumOf(_)
SumOf(values) == IF values = <<>> THEN 0 ELSE Head(values) + SumOf(Tail(values))

\* solve_with_uncertainty: the record it returns and the generator it leaves.
\* Values are in hundredths; expected_value is kept as the sum and the count
\* of the samples it is the mean of.
solve_with_uncertainty(db, sv, max_time, max_complexity, n_simulations, rng) ==
    LET det_solution == solve_deterministic(db, sv, max_time, max_complexity) IN
    IF ~det_solution.success
    THEN [result |-> det_solution, rng |-> rng]
    ELSE LET sim == SimulateAll(db, det_solution.path, n_simulations,
                                np_random_seed(rng, GLOBAL_SEED), <<>>)
             values == Range(sim.simulations)
         IN [result |->
                [success |-> TRUE,
                 path |-> det_solution.path,
                 deterministic_value |-> det_solution.total_value,
                 expected_value |-> [sum |-> SumOf(sim.simulations),
                                     count |-> Len(sim.simulations)],
                 min_value |-> CHOOSE v \in values : \A w \in values : v <= w,
                 max_value |-> CHOOSE v \in values : \A w \in values : w <= v,
                 simulations |-> sim.simulations,
                 total_time |-> det_solution.total_time,
                 total_complexity |-> det_solution.total_complexity],
             rng |-> sim.rng]

\* check_feasibility: the flag, and the minimums its message carries when False.
check_feasibility(sv, max_time, max_complexity) ==
    IF sv.min_feasible_time <= max_time /\ sv.min_feasible_complexity <= max_complexity
    THEN [feasible |-> TRUE, T |-> None, C |-> None]
    ELSE [feasible |-> FALSE, T |-> sv.min_feasible_time, C |-> sv.min_feasible_complexity]

---------------------------------------------------------------------------
(* ImprovedAdaptabilityOptimizer (gs_challenge3.py) *)

\* Optional[Dict]: None, or a result record.
NoneResult == [is_none |-> TRUE]

Selection(algorithm, selected, total_value, total_time) ==
    [is_none |-> FALSE, algorithm |-> algorithm, selected |-> selected,
     total_value |-> total_value, total_time |-> total_time,
     num_skills |-> Len(selected)]

\* A sort key that is the value alone.
RatioGeq_ByValor(db, a, b) == db[a].Valor >= db[b].Valor

\* The sort key Valor / Tempo of greedy_solution, compared as exact rationals
\* (Tempo > 0): TRUE when a's ratio is at least b's.
RatioGeq(db, a, b) == db[a].Valor * db[b].Tempo >= db[b].Valor * db[a].Tempo

\* sorted(..., key=Valor/Tempo, reverse=True): stable, descending.
RECURSIVE InsertByRatio(_, _, _)
InsertByRatio(db, sorted, x) ==
    IF sorted = <<>> THEN <<x>>
    ELSE IF RatioGeq(db, Head(sorted), x)
         THEN <<Head(sorted)>> \o InsertByRatio(db, Tail(sorted), x)
         ELSE <<x>> \o sorted

RECURSIVE SortByRatioDesc(_, _)
SortByRatioDesc(db, skills) ==
    IF skills = <<>> THEN <<>>
    ELSE InsertByRatio(db, SortByRatioDesc(db, SubSeq(skills, 1, Len(skills) - 1)),
                       skills[Len(skills)])

\* The selection loop of greedy_solution.
RECURSIVE GreedyLoop(_, _, _, _, _, _)
GreedyLoop(db, skills_sorted, min_adapt, selected, total_value, total_time) ==
    IF skills_sorted = <<>>
    THEN Selection("Guloso (V/T)", selected, total_value, total_time)
    ELSE LET skill_id == Head(skills_sorted)
             skill == db[skill_id]
         IN IF total_value + skill.Valor >= min_adapt
            THEN Selection("Guloso (V/T)", Append(selected, skill_id),
                           total_value + skill.Valor, total_time + skill.Tempo)
            ELSE GreedyLoop(db, Tail(skills_sorted), min_adapt, Append(selected, skill_id),
                            total_value + skill.Valor, total_time + skill.Tempo)

greedy_solution(db, basic_skills, min_adapt) ==
    GreedyLoop(db, SortByRatioDesc(db, basic_skills), min_adapt, <<>>, 0, 0)

\* The dp dict of optimal_solution_dp, value -> (time, skills): a sequence of
\* entries in insertion order.
ValueAt(dp, value) == IF \E i \in 1..Len(dp) : dp[i].value = value
                      THEN CHOOSE i \in 1..Len(dp) : dp[i].value = value
                      ELSE 0

\* An inner loop that never replaces the entry of a value level.
RECURSIVE RelaxFrom_KeepFirst(_, _, _, _)
RelaxFrom_KeepFirst(new_dp, old, db, skill_id) ==
    IF old = <<>> THEN new_dp
    ELSE LET e == Head(old)
             entry == [value |-> e.value + db[skill_id].Valor,
                       time |-> e.time + db[skill_id].Tempo,
                       skills |-> Append(e.skills, skill_id)]
             relaxed == IF ValueAt(new_dp, entry.value) = 0 THEN Append(new_dp, entry)
                        ELSE new_dp
         IN RelaxFrom_KeepFirst(relaxed, Tail(old), db, skill_id)

\* The inner loop of optimal_solution_dp: relax new_dp with every entry of dp.
RECURSIVE RelaxFrom(_, _, _, _)
RelaxFrom(new_dp, old, db, skill_id) ==
    IF old = <<>> THEN new_dp
    ELSE LET e == Head(old)
             new_value == e.value + db[skill_id].Valor
             new_time == e.time + db[skill_id].Tempo
             new_skills == Append(e.skills, skill_id)
             entry == [value |-> new_value, time |-> new_time, skills |-> new_skills]
             i == ValueAt(new_dp, new_value)
             relaxed == IF i = 0 THEN Append(new_dp, entry)
                        ELSE IF new_time < new_dp[i].time
                             THEN [new_dp EXCEPT ![i] = entry]
                             ELSE new_dp
         IN RelaxFrom(relaxed, Tail(old), db, skill_id)

RECURSIVE DpTable(_, _, _)
DpTable(dp, db, basic_skills) ==
    IF basic_skills = <<>> THEN dp
    ELSE DpTable(RelaxFrom(dp, dp, db, Head(basic_skills)), db, Tail(basic_skills))

\* A selection loop that takes the first entry at or above min_adapt.
RECURSIVE DpBest_FirstReaching(_, _, _)
DpBest_FirstReaching(dp, min_adapt, best) ==
    IF dp = <<>> THEN best
    ELSE IF Head(dp).value >= min_adapt THEN <<Head(dp)>>
         ELSE DpBest_FirstReaching(Tail(dp), min_adapt, best)

\* The selection loop of optimal_solution_dp: the first entry at or above
\* min_adapt with the strictly least time.
RECURSIVE DpBest(_, _, _)
DpBest(dp, min_adapt, best) ==
    IF dp = <<>> THEN best
    ELSE LET e == Head(dp) IN
         IF e.value >= min_adapt /\ (best = <<>> \/ e.time < best[1].time)
         THEN DpBest(Tail(dp), min_adapt, <<e>>)
         ELSE DpBest(Tail(dp), min_adapt, best)

optimal_solution_dp(db, basic_skills, min_adapt) ==
    LET dp == DpTable(<<[value |-> 0, time |-> 0, skills |-> <<>>]>>, db, basic_skills)
        best == DpBest(dp, min_adapt, <<>>)
    IN IF best = <<>> THEN NoneResult
       ELSE Selection("Otimo (DP)", best[1].skills, best[1].value, best[1].time)

\* itertools.combinations(skills, size): the size-element subsequences, in
\* lexicographic order of their positions.
RECURSIVE Combinations(_, _)
Combinations(skills, size) ==
    IF size = 0 THEN << <<>> >>
    ELSE IF Len(skills) < size THEN <<>>
    ELSE LET with_head == Combinations(Tail(skills), size - 1)
         IN [i \in 1..Len(with_head) |-> <<Head(skills)>> \o with_head[i]]
            \o Combinations(Tail(skills), size)

\* for size in range(1, len(basic_skills) + 1): for combo in combinations(...)
RECURSIVE CombosFrom(_, _)
CombosFrom(skills, size) ==
    IF size > Len(skills) THEN <<>>
    ELSE Combinations(skills, size) \o CombosFrom(skills, size + 1)

\* The loops of optimal_solution_bruteforce: the first combination at or above
\* min_adapt with the strictly least time.
RECURSIVE BruteBest(_, _, _, _)
BruteBest(db, combos, min_adapt, best) ==
    IF combos = <<>> THEN best
    ELSE LET combo == Head(combos)
             total_time == SumField(db, combo, "Tempo")
         IN IF SumField(db, combo, "Valor") >= min_adapt
               /\ (best = <<>> \/ total_time < best[1].time)
            THEN BruteBest(db, Tail(combos), min_adapt,
                           <<[time |-> total_time, skills |-> combo]>>)
            ELSE BruteBest(db, Tail(combos), min_adapt, best)

optimal_solution_bruteforce(db, basic_skills, min_adapt) ==
    LET best == BruteBest(db, CombosFrom(basic_skills, 1), min_adapt, <<>>)
    IN IF best = <<>> THEN NoneResult
       ELSE Selection("Otimo (Forca Bruta)", best[1].skills,
                      SumField(db, best[1].skills, "Valor"), best[1].time)

\* The record demonstrate_counterexample returns.
demonstrate_counterexample ==
    [database |-> [A |-> [Valor |-> 16, Tempo |-> 10],
                   B |-> [Valor |-> 12, Tempo |-> 7],
                   C |-> [Valor |-> 8, Tempo |-> 4]],
     min_adaptability |-> 16,
     greedy_solution |-> [choice |-> <<"C", "B">>, time |-> 11, value |-> 20],
     optimal_solution |-> [choice |-> <<"A">>, time |-> 10, value |-> 16]]

---------------------------------------------------------------------------
(* ImprovedSkillRecommender (gs_challenge5.py) *)

\* The keys of the recommender's skills_db in insertion order, and the time
\* costs (hours) its skills take.
RecSkillIds == <<"H1", "H11", "S4", "S6">>
RecTimes == {1000, 1500}

\* The greatest int(new_t / 2000) a state of the table can have: all skills
\* acquired, each at the greatest time cost.
MaxYearsAhead ==
    (Len(RecSkillIds) * (CHOOSE t \in RecTimes : \A u \in RecTimes : u <= t)) \div 2000

\* _define_market_scenarios.  prob is in twentieths (0.4 = 8/20), a
\* value_multiplier in tenths (1.5 = 15/10), discount_factor a fraction
\* (0.95 = 19/20).
market_scenarios ==
    [scenarios |->
        <<[name |-> "AI_Boom", prob |-> 8,
           value_multiplier |-> [S6 |-> 15, S4 |-> 13, H11 |-> 12]],
          [name |-> "Cloud_Native", prob |-> 7,
           value_multiplier |-> [S7 |-> 14, S9 |-> 13, S8 |-> 12]],
          [name |-> "Security_First", prob |-> 5,
           value_multiplier |-> [S5 |-> 16, H12 |-> 13]]>>,
     horizon_years |-> 5,
     discount_factor |-> [num |-> 19, den |-> 20]]

RECURSIVE Pow(_, _)
Pow(b, e) == IF e = 0 THEN 1 ELSE b * Pow(b, e - 1)

\* scenario_data['value_multiplier'].get(skill_id, 1.0), in tenths.
MultiplierOf(scenario, skill_id) ==
    IF skill_id \in DOMAIN scenario.value_multiplier
    THEN scenario.value_multiplier[skill_id]
    ELSE 10

\* synergy_bonus in twentieths: 1.0, plus 0.05 for every prerequisite entry
\* that is in current_skills.
SynergyBonus(db, skill_id, current_skills) ==
    20 + Cardinality({i \in 1..Len(db[skill_id].Pre_Reqs) :
                         db[skill_id].Pre_Reqs[i] \in current_skills})

\* The loop over the scenarios: the sum of prob * scenario_value.
RECURSIVE ScenarioSum(_, _, _, _)
ScenarioSum(scenarios, db, skill_id, current_skills) ==
    IF scenarios = <<>> THEN 0
    ELSE Head(scenarios).prob * db[skill_id].Valor
            * MultiplierOf(Head(scenarios), skill_id)
            * SynergyBonus(db, skill_id, current_skills)
         + ScenarioSum(Tail(scenarios), db, skill_id, current_skills)

\* _calculate_expected_value, as an exact rational: the result counts units
\* of 1 / (20 * 10 * 20 * 20^MaxYearsAhead).
calculate_expected_value(db, skill_id, current_skills, years_ahead) ==
    ScenarioSum(market_scenarios.scenarios, db, skill_id, current_skills)
        * Pow(market_scenarios.discount_factor.num, years_ahead)
        * Pow(market_scenarios.discount_factor.den, MaxYearsAhead - years_ahead)

\* A list of available skills that forgets the prerequisites.
get_available_skills_NoPrereqs(db, acquired) ==
    SelectSeq(RecSkillIds, LAMBDA k : k \notin acquired)

\* _get_available_skills: the keys, in dict order, that are not acquired and
\* whose prerequisites are all acquired.
get_available_skills(db, acquired) ==
    SelectSeq(RecSkillIds,
              LAMBDA k : k \notin acquired /\ Range(db[k].Pre_Reqs) \subseteq acquired)

\* horizon_hours = min(max_time, horizon_years * 2000)
horizon_hours(max_time) ==
    LET limit == market_scenarios.horizon_years * 2000
    IN IF max_time < limit THEN max_time ELSE limit

\* The table dp[t][frozenset(skills)] = (value, path): a sequence of buckets
\* [t, states] in the insertion order of the times, each with its states in
\* insertion order.
TimeIndex(dp, t) ==
    IF \E i \in 1..Len(dp) : dp[i].t = t
    THEN CHOOSE i \in 1..Len(dp) : dp[i].t = t
    ELSE 0

StateIndex(states, skills) ==
    IF \E i \in 1..Len(states) : states[i].skills = skills
    THEN CHOOSE i \in 1..Len(states) : states[i].skills = skills
    ELSE 0

\* An update that stores whatever was generated last.
StoreIfBetter_Last(dp, new_t, state) ==
    LET dp1 == IF TimeIndex(dp, new_t) = 0
               THEN Append(dp, [t |-> new_t, states |-> <<>>])
               ELSE dp
        j == TimeIndex(dp1, new_t)
        k == StateIndex(dp1[j].states, state.skills)
    IN IF k = 0 THEN [dp1 EXCEPT ![j].states = Append(@, state)]
       ELSE [dp1 EXCEPT ![j].states[k] = state]

\* The update of recommend_with_dp: dp[new_t] comes into being when it is
\* read; the state is stored when its set is new there or its value greater.
StoreIfBetter(dp, new_t, state) ==
    LET dp1 == IF TimeIndex(dp, new_t) = 0
               THEN Append(dp, [t |-> new_t, states |-> <<>>])
               ELSE dp
        j == TimeIndex(dp1, new_t)
        k == StateIndex(dp1[j].states, state.skills)
    IN IF k = 0 THEN [dp1 EXCEPT ![j].states = Append(@, state)]
       ELSE IF state.value > dp1[j].states[k].value
            THEN [dp1 EXCEPT ![j].states[k] = state]
            ELSE dp1

\* Whether the expansion of a state at time t by a skill is dropped
\* ("if new_t > horizon_hours: continue").
BeyondHorizon_Never(new_t, horizon) == FALSE

BeyondHorizon(new_t, horizon) == new_t > horizon

\* for skill_id in available: ...
RECURSIVE ExpandSkills(_, _, _, _, _, _)
ExpandSkills(dp, db, t, state, available, horizon) ==
    IF available = <<>> THEN dp
    ELSE LET skill_id == Head(available)
             new_t == t + db[skill_id].Tempo
             expected_value == calculate_expected_value(db, skill_id, state.skills,
                                                        new_t \div 2000)
             new_state == [skills |-> state.skills \cup {skill_id},
                           value |-> state.value + expected_value,
                           path |-> Append(state.path, skill_id)]
         IN IF BeyondHorizon(new_t, horizon)
            THEN ExpandSkills(dp, db, t, state, Tail(available), horizon)
            ELSE ExpandSkills(StoreIfBetter(dp, new_t, new_state), db, t, state,
                              Tail(available), horizon)

\* for skills_set, (current_value, path) in list(dp[t].items()): ...
RECURSIVE ExpandStates(_, _, _, _, _)
ExpandStates(dp, db, t, states, horizon) ==
    IF states = <<>> THEN dp
    ELSE ExpandStates(ExpandSkills(dp, db, t, Head(states),
                                   get_available_skills(db, Head(states).skills), horizon),
                      db, t, Tail(states), horizon)

\* for t in range(0, horizon_hours + 1, discretization): if t not in dp: continue
\* The loop visits the multiples of discretization up to the horizon and skips
\* those that are no key of dp: after a time it goes on at the least later key
\* that is such a multiple, and ends when there is none.
NextVisited(dp, t, horizon, discretization) ==
    LET later == {u \in {dp[i].t : i \in 1..Len(dp)} :
                     u > t /\ u <= horizon /\ u % discretization = 0}
    IN IF later = {} THEN horizon + 1
       ELSE CHOOSE u \in later : \A w \in later : u <= w

RECURSIVE ForwardFrom(_, _, _, _, _)
ForwardFrom(dp, db, t, horizon, discretization) ==
    IF t > horizon THEN dp
    ELSE LET i == TimeIndex(dp, t)
             dp1 == IF i = 0 THEN dp ELSE ExpandStates(dp, db, t, dp[i].states, horizon)
         IN ForwardFrom(dp1, db, NextVisited(dp1, t, horizon, discretization),
                        horizon, discretization)

\* The table after the forward loop of recommend_with_dp.
dp_forward(db, current_profile, max_time, discretization) ==
    ForwardFrom(<<[t |-> 0,
                   states |-> <<[skills |-> current_profile, value |-> 0, path |-> <<>>]>>]>>,
                db, 0, horizon_hours(max_time), discretization)

\* The forward loop once more, with the table and the list of what it did in
\* the order it did it: "expand" when a state is taken from dp[t], "generate"
\* when a successor is computed for the key (new_t, new_skills), with the
\* entry the key had (had, old) and whether the successor was stored.
RECURSIVE ExpandSkillsLog(_, _, _, _, _, _)
ExpandSkillsLog(fwd, db, t, state, available, horizon) ==
    IF available = <<>> THEN fwd
    ELSE LET skill_id == Head(available)
             new_t == t + db[skill_id].Tempo
             expected_value == calculate_expected_value(db, skill_id, state.skills,
                                                        new_t \div 2000)
             new_state == [skills |-> state.skills \cup {skill_id},
                           value |-> state.value + expected_value,
                           path |-> Append(state.path, skill_id)]
             j == TimeIndex(fwd.dp, new_t)
             k == IF j = 0 THEN 0 ELSE StateIndex(fwd.dp[j].states, new_state.skills)
             dp2 == StoreIfBetter(fwd.dp, new_t, new_state)
             j2 == TimeIndex(dp2, new_t)
             k2 == StateIndex(dp2[j2].states, new_state.skills)
             event == [kind |-> "generate", t |-> new_t, skills |-> new_state.skills,
                       value |-> new_state.value, from |-> t,
                       had |-> k # 0,
                       old |-> IF k = 0 THEN 0 ELSE fwd.dp[j].states[k].value,
                       stored |-> k = 0 \/ dp2[j2].states[k2] # fwd.dp[j].states[k]]
         IN IF BeyondHorizon(new_t, horizon)
            THEN ExpandSkillsLog(fwd, db, t, state, Tail(available), horizon)
            ELSE IF event.stored
            THEN ExpandSkillsLog([dp |-> dp2, log |-> Append(fwd.log, event)],
                                 db, t, state, Tail(available), horizon)
            ELSE ExpandSkillsLog([dp |-> fwd.dp, log |-> Append(fwd.log, event)],
                                 db, t, state, Tail(available), horizon)

\* The states of the list, first to last: the last one is expanded on what the
\* ones before it left.
RECURSIVE ExpandStatesLog(_, _, _, _, _)
ExpandStatesLog(fwd, db, t, states, horizon) ==
    IF states = <<>> THEN fwd
    ELSE LET state == states[Len(states)]
             before == ExpandStatesLog(fwd, db, t, SubSeq(states, 1, Len(states) - 1),
                                       horizon)
             event == [kind |-> "expand", t |-> t, skills |-> state.skills,
                       value |-> state.value, from |-> t,
                       had |-> TRUE, old |-> state.value, stored |-> FALSE]
         IN ExpandSkillsLog([dp |-> before.dp, log |-> Append(before.log, event)],
                            db, t, state,
                            get_available_skills(db, state.skills), horizon)

RECURSIVE ForwardLogFrom(_, _, _, _, _)
ForwardLogFrom(fwd, db, t, horizon, discretization) ==
    IF t > horizon THEN fwd
    ELSE LET i == TimeIndex(fwd.dp, t)
             fwd1 == IF i = 0 THEN fwd
                     ELSE ExpandStatesLog(fwd, db, t, fwd.dp[i].states, horizon)
             next_t == NextVisited(fwd1.dp, t, horizon, discretization)
         IN IF next_t > horizon THEN fwd1
            ELSE ForwardLogFrom(fwd1, db, next_t, horizon, discretization)

dp_forward_log(db, current_profile, max_time, discretization) ==
    ForwardLogFrom([dp |-> <<[t |-> 0,
                              states |-> <<[skills |-> current_profile, value |-> 0,
                                            path |-> <<>>]>>]>>,
                    log |-> <<>>],
                   db, 0, horizon_hours(max_time), discretization)

\* for t in dp: for skills_set, (value, path) in dp[t].items()
RECURSIVE TableEntries(_)
TableEntries(dp) ==
    IF dp = <<>> THEN <<>>
    ELSE [i \in 1..Len(Head(dp).states) |->
             [t |-> Head(dp).t, skills |-> Head(dp).states[i].skills,
              value |-> Head(dp).states[i].value, path |-> Head(dp).states[i].path]]
         \o TableEntries(Tail(dp))

\* The selection loop: best_value starts at -1, a strictly greater value wins.
RECURSIVE BestState(_, _)
BestState(entries, best) ==
    IF entries = <<>> THEN best
    ELSE IF Head(entries).value > (IF best = <<>> THEN -1 ELSE best[1].value)
         THEN BestState(Tail(entries), <<Head(entries)>>)
         ELSE BestState(Tail(entries), best)

\* A recommendation list that is the whole path.
NextSkills_Untruncated(path, current_profile) ==
    SelectSeq(path, LAMBDA s : s \notin current_profile)

\* next_skills = [s for s in path if s not in current_profile][:3]
NextSkills(path, current_profile) ==
    LET fresh == SelectSeq(path, LAMBDA s : s \notin current_profile)
    IN SubSeq(fresh, 1, IF Len(fresh) < 3 THEN Len(fresh) ELSE 3)

recommend_with_dp(db, current_profile, max_time, discretization) ==
    LET dp == dp_forward(db, current_profile, max_time, discretization)
        best == BestState(TableEntries(dp), <<>>)
    IN IF best = <<>>
       THEN [algorithm |-> "DP Verdadeiro", recommendations |-> <<>>,
             message |-> "Nenhuma solucao encontrada"]
       ELSE LET path == best[1].path
                next_skills == NextSkills(path, current_profile)
            IN [algorithm |-> "DP Verdadeiro",
                recommendations |->
                    [i \in 1..Len(next_skills) |->
                        [skill_id |-> next_skills[i],
                         expected_value |-> calculate_expected_value(
                                               db, next_skills[i], current_profile, 1),
                         time |-> db[next_skills[i]].Tempo]],
                optimal_path |-> path,
                optimal_value |-> best[1].value,
                optimal_time |-> best[1].t,
                num_new_skills |-> Len(SelectSeq(path, LAMBDA s : s \notin current_profile))]

---------------------------------------------------------------------------
(* Entry points: validate_before_optimization and main.py *)

\* gs_config.py: TARGET_SKILL (a key of the graph), MAX_TIME, MAX_COMPLEXITY;
\* the default cap of ImprovedMaxValuePathDP.__init__.
TARGET_SKILL == "S1"
MAX_TIME == 350
MAX_COMPLEXITY == 30
DefaultCap == 50

\* validate_before_optimization: validate_graph(verbose=True), ValueError when
\* the graph is not valid.
validate_before_optimization(db, ids) ==
    LET o == validate_graph(db, ids, TRUE) IN
    [raised |-> ~o.ret, ret |-> o.ret,
     names_orphans |-> ~o.ret /\ o.report.orphan_nodes # <<>>,
     names_cycles |-> ~o.ret /\ o.report.cycles # <<>>]

\* validate_database_inline: TRUE when it returns, FALSE when it raises
\* ValueError (a prerequisite that is no key, or a non-positive field).
validate_database_inline(db) ==
    \A k \in DOMAIN db :
        /\ \A p \in Range(Prereqs(db, k)) : p \in DOMAIN db
        /\ db[k].Valor > 0 /\ db[k].Tempo > 0 /\ db[k].Complexidade > 0

\* What an optimizer run left behind: refused (validation stopped it before
\* any optimizer was built), raised (an exception escaped the optimizer),
\* produced (a result record was returned) and that record.
RunOutcome(entry, refused, raised, result) ==
    [entry |-> entry, refused |-> refused, raised |-> raised,
     produced |-> ~refused /\ ~raised, result |-> result]

\* run_challenge1_with_viz (main.py) and run_challenge1 (gs_challenge1.py, with
\* USE_RELAXED_CONSTRAINTS = True): build the solver, relax the limits when the
\* configured ones are infeasible, solve.
run_challenge1(db, required) ==
    LET sv == NewSolver(db, TARGET_SKILL, DefaultCap, required)
        feasible == check_feasibility(sv, MAX_TIME, MAX_COMPLEXITY).feasible
        time_limit == IF feasible THEN MAX_TIME ELSE sv.min_feasible_time + 50
        complexity_limit == IF feasible THEN MAX_COMPLEXITY
                            ELSE sv.min_feasible_complexity + 6
    IN solve_deterministic(db, sv, time_limit, complexity_limit)

---------------------------------------------------------------------------
(* Inputs *)

\* Largest budget (max_time, max_complexity) given to solve_deterministic.
MaxBudget == 4

\* Largest number of candidates of the subset optimizer, and largest threshold.
MaxCands == 3
MaxThreshold == 7

UnitCost(prereqs) ==
    [Pre_Reqs |-> prereqs, Valor |-> 1, Tempo |-> 1, Complexidade |-> 1]

\* Graphs for the validator: any Pre_Reqs lists (no identifier twice in one
\* list) over the keys and the missing identifier, MaxEdges entries in all.
ValidatorGraphs ==
    {[k \in Keys |-> UnitCost(f[k])] :
        f \in {g \in [Keys -> DistinctSeqs(Ids, MaxEdges)] :
                  Len(g["H1"]) + Len(g["H2"]) + Len(g["S1"]) <= MaxEdges}}

\* (Valor, Tempo, Complexidade) of a skill.
CostProfiles ==
    {[Valor |-> 1, Tempo |-> 1, Complexidade |-> 1],
     [Valor |-> 2, Tempo |-> 1, Complexidade |-> 1],
     [Valor |-> 1, Tempo |-> 2, Complexidade |-> 1],
     [Valor |-> 1, Tempo |-> 1, Complexidade |-> 2]}

\* Acyclic graphs without dangling prerequisites for the path solver: every
\* prerequisite of a key is an earlier key (the solver never iterates the dict,
\* so the key names carry no order of their own).
PathPrereqs ==
    {f \in [Keys -> DistinctSeqs(Keys, 2)] :
        /\ f["H1"] = <<>>
        /\ Range(f["H2"]) \subseteq {"H1"}
        /\ Range(f["S1"]) \subseteq {"H1", "H2"}}

PathGraphs ==
    {[k \in Keys |-> [Pre_Reqs |-> f[k], Valor |-> c[k].Valor, Tempo |-> c[k].Tempo,
                      Complexidade |-> c[k].Complexidade]] :
        f \in PathPrereqs, c \in [Keys -> CostProfiles]}

CapChoices == {1, DefaultCap}

\* gs_config.py: BASIC_SKILLS.
BASIC_SKILLS == <<"H1", "H2", "H3", "H4", "H5", "H6", "H7">>

CandValues == {1, 2, 3}
CandTimes == {1, 2, 3}

\* The dataset of demonstrate_counterexample as candidates of the optimizer:
\* prerequisite-free skills with the values and times of the record.
CounterexampleCandidates ==
    [k \in DOMAIN demonstrate_counterexample.database |->
        [Pre_Reqs |-> <<>>,
         Valor |-> demonstrate_counterexample.database[k].Valor,
         Tempo |-> demonstrate_counterexample.database[k].Tempo,
         Complexidade |-> 1]]

\* Most entries a Pre_Reqs list of the recommender's graphs has.
MaxRecPrereqs == 2

\* Acyclic graphs over the recommender's keys: the prerequisites of a key are
\* earlier keys, listed in key order.
RecPrereqs ==
    {f \in [Range(RecSkillIds) -> SUBSET Range(RecSkillIds)] :
        \A i \in 1..Len(RecSkillIds) :
            /\ f[RecSkillIds[i]] \subseteq {RecSkillIds[j] : j \in 1..(i - 1)}
            /\ Cardinality(f[RecSkillIds[i]]) <= MaxRecPrereqs}

\* (Valor, Tempo) of a skill of the recommender.
RecCostProfiles ==
    {c \in [Valor : {1, 2}, Tempo : RecTimes] : c.Valor = 2 \/ c.Tempo = 1000}

RecGraphs ==
    {[k \in Range(RecSkillIds) |->
        [Pre_Reqs |-> SelectSeq(RecSkillIds, LAMBDA p : p \in f[k]),
         Valor |-> c[k].Valor, Tempo |-> c[k].Tempo, Complexidade |-> 1]] :
        f \in RecPrereqs, c \in [Range(RecSkillIds) -> RecCostProfiles]}

\* Profiles already held, horizons (max_time) and time steps (discretization;
\* 10 is the default of recommend_with_dp).
RecProfiles == SUBSET {RecSkillIds[1], RecSkillIds[2]}
RecMaxTimes == {3000, 12000}
RecDiscretizations == {10, 1000}

\* Most draws other code takes from the global generator before a run, and
\* most simulations of a run.
MaxDraws == 2
MaxSimulations == 2


---------------------------------------------------------------------------
(* Validation and the entry points *)

Init ==
    /\ skills_db \in ValidatorGraphs
    /\ all_skill_ids \in Orders(Keys)
    /\ pc = "start"
    /\ validation = Idle
    /\ run = Idle
    /\ recommender = Idle
    /\ np_random = Idle
    /\ solver = Idle
    /\ subset = Idle

\* GraphValidator(skills_db).validate_graph(verbose)
ValidateGraph ==
    /\ pc = "start"
    /\ \E verbose \in BOOLEAN :
          validation' = [verbose |-> verbose,
                         out |-> validate_graph(skills_db, all_skill_ids, verbose)]
    /\ pc' = "validated"
    /\ UNCHANGED <<skills_db, all_skill_ids, run, solver, subset,
                 recommender, np_random>>

\* validator.validate_graph(verbose) once more, on the same validator object.
ValidateGraphAgain ==
    /\ pc = "validated"
    /\ \E verbose \in BOOLEAN :
          validation' = [verbose |-> validation.verbose, out |-> validation.out,
                         again |-> [verbose |-> verbose,
                                    out |-> validate_graph(skills_db, all_skill_ids,
                                                           verbose)]]
    /\ pc' = "revalidated"
    /\ UNCHANGED <<skills_db, all_skill_ids, run, solver, subset,
                   recommender, np_random>>

\* validate_before_optimization(skills_db)
ValidateBeforeOptimization ==
    /\ pc = "start"
    /\ run' = LET g == validate_before_optimization(skills_db, all_skill_ids) IN
              [RunOutcome("validate_before_optimization", g.raised, FALSE, <<>>)
                  EXCEPT !.produced = FALSE]
    /\ pc' = "gated"
    /\ UNCHANGED <<skills_db, all_skill_ids, validation, solver, subset,
                 recommender, np_random>>

\* main(): validate_database_inline, then run_challenge1_with_viz.
MainEntry ==
    /\ pc = "start"
    /\ IF ~validate_database_inline(skills_db)
       THEN run' = RunOutcome("main", TRUE, FALSE, <<>>)
       ELSE \E required \in Orders(get_required_skills(skills_db, TARGET_SKILL).required) :
               run' = RunOutcome("main", FALSE, FALSE, run_challenge1(skills_db, required))
    /\ pc' = "ran"
    /\ UNCHANGED <<skills_db, all_skill_ids, validation, solver, subset,
                 recommender, np_random>>

\* gs_challenge1.run_challenge1(), the module run as a script: the solver is
\* built and run on the graph as it is.  The constructor raises KeyError when
\* the closure of the target reaches an identifier that is no key.
RunChallenge1 ==
    /\ pc = "start"
    /\ LET r == get_required_skills(skills_db, TARGET_SKILL) IN
       IF r.raised
       THEN run' = RunOutcome("run_challenge1", FALSE, TRUE, <<>>)
       ELSE \E required \in Orders(r.required) :
               run' = RunOutcome("run_challenge1", FALSE, FALSE,
                                 run_challenge1(skills_db, required))
    /\ pc' = "ran"
    /\ UNCHANGED <<skills_db, all_skill_ids, validation, solver, subset,
                 recommender, np_random>>

Next ==
    \/ ValidateGraph
    \/ ValidateGraphAgain
    \/ ValidateBeforeOptimization
    \/ MainEntry
    \/ RunChallenge1

Spec == Init /\ [][Next]_vars

---------------------------------------------------------------------------
(* The path solver on valid graphs *)

InitPath ==
    /\ skills_db \in PathGraphs
    /\ all_skill_ids = SkillIds
    /\ pc = "constructed"
    /\ \E target \in Keys, cap \in CapChoices :
          \E required \in Orders(get_required_skills(skills_db, target).required) :
             solver = [obj |-> NewSolver(skills_db, target, cap, required)]
    /\ validation = Idle
    /\ run = Idle
    /\ recommender = Idle
    /\ np_random = Idle
    /\ subset = Idle

\* solver.solve_deterministic(max_time, max_complexity)
SolveDeterministic ==
    /\ pc = "constructed"
    /\ \E max_time \in 0..MaxBudget, max_complexity \in 0..MaxBudget :
          solver' = [obj |-> solver.obj, max_time |-> max_time,
                     max_complexity |-> max_complexity,
                     result |-> solve_deterministic(skills_db, solver.obj,
                                                    max_time, max_complexity),
                     tables |-> ProcessTrace(InitialDp, skills_db,
                                   solver_topological_sort(skills_db,
                                       solver.obj.required_skills),
                                   max_time, max_complexity,
                                   solver.obj.max_states_per_cell)]
    /\ pc' = "solved"
    /\ UNCHANGED <<skills_db, all_skill_ids, validation, run, subset,
                 recommender, np_random>>

\* solver.check_feasibility(max_time, max_complexity)
CheckFeasibility ==
    /\ pc = "constructed"
    /\ \E max_time \in 0..MaxBudget, max_complexity \in 0..MaxBudget :
          solver' = [obj |-> solver.obj, max_time |-> max_time,
                     max_complexity |-> max_complexity,
                     feasibility |-> check_feasibility(solver.obj,
                                                       max_time, max_complexity)]
    /\ pc' = "checked"
    /\ UNCHANGED <<skills_db, all_skill_ids, validation, run, subset,
                 recommender, np_random>>

NextPath == SolveDeterministic \/ CheckFeasibility

SpecPath == InitPath /\ [][NextPath]_vars

---------------------------------------------------------------------------
(* The subset optimizer *)

InitSubset ==
    /\ \/ \E n \in 0..MaxCands :
             /\ skills_db \in [{BASIC_SKILLS[i] : i \in 1..n} ->
                                  [Pre_Reqs : {<<>>}, Valor : CandValues,
                                   Tempo : CandTimes, Complexidade : {1}]]
             /\ \E min_adapt \in -1..MaxThreshold :
                   subset = [basic_skills |-> SubSeq(BASIC_SKILLS, 1, n),
                             min_adapt |-> min_adapt]
       \/ /\ skills_db = CounterexampleCandidates
          /\ \E basic_skills \in Orders(DOMAIN CounterexampleCandidates) :
                subset = [basic_skills |-> basic_skills,
                          min_adapt |-> demonstrate_counterexample.min_adaptability]
    /\ all_skill_ids = <<>>
    /\ pc = "optimizer"
    /\ validation = Idle
    /\ run = Idle
    /\ recommender = Idle
    /\ np_random = Idle
    /\ solver = Idle

\* optimizer.greedy_solution()
GreedySolution ==
    /\ pc = "optimizer"
    /\ subset' = [basic_skills |-> subset.basic_skills, min_adapt |-> subset.min_adapt,
                  greedy |-> greedy_solution(skills_db, subset.basic_skills,
                                             subset.min_adapt)]
    /\ pc' = "greedy"
    /\ UNCHANGED <<skills_db, all_skill_ids, validation, run, solver,
                 recommender, np_random>>

\* optimizer.optimal_solution_dp(), after the greedy run (run_challenge3_with_viz)
OptimalSolutionDp ==
    /\ pc = "greedy"
    /\ subset' = [basic_skills |-> subset.basic_skills, min_adapt |-> subset.min_adapt,
                  greedy |-> subset.greedy,
                  dp |-> optimal_solution_dp(skills_db, subset.basic_skills,
                                             subset.min_adapt)]
    /\ pc' = "dp"
    /\ UNCHANGED <<skills_db, all_skill_ids, validation, run, solver,
                 recommender, np_random>>

\* optimizer.optimal_solution_bruteforce(), after the two others
\* (compare_solutions)
OptimalSolutionBruteforce ==
    /\ pc = "dp"
    /\ subset' = [basic_skills |-> subset.basic_skills, min_adapt |-> subset.min_adapt,
                  greedy |-> subset.greedy, dp |-> subset.dp,
                  bruteforce |-> optimal_solution_bruteforce(skills_db,
                                     subset.basic_skills, subset.min_adapt)]
    /\ pc' = "bruteforce"
    /\ UNCHANGED <<skills_db, all_skill_ids, validation, run, solver,
                 recommender, np_random>>

\* optimizer.demonstrate_counterexample(), after the two computed solutions
\* (run_challenge3_with_viz)
DemonstrateCounterexample ==
    /\ pc = "dp"
    /\ subset' = [basic_skills |-> subset.basic_skills, min_adapt |-> subset.min_adapt,
                  greedy |-> subset.greedy, dp |-> subset.dp,
                  counter |-> demonstrate_counterexample]
    /\ pc' = "demonstrated"
    /\ UNCHANGED <<skills_db, all_skill_ids, validation, run, solver,
                 recommender, np_random>>

NextSubset ==
    \/ GreedySolution
    \/ OptimalSolutionDp
    \/ OptimalSolutionBruteforce
    \/ DemonstrateCounterexample

SpecSubset == InitSubset /\ [][NextSubset]_vars

---------------------------------------------------------------------------
(* Monte Carlo runs of the path solver on the global generator *)

\* gs_config seeds the global generator when it is imported; the solver is
\* built for the configured target.
InitMC ==
    /\ skills_db \in PathGraphs
    /\ all_skill_ids = SkillIds
    /\ pc = "constructed"
    /\ \E required \in Orders(get_required_skills(skills_db, TARGET_SKILL).required) :
          solver = [obj |-> NewSolver(skills_db, TARGET_SKILL, DefaultCap, required)]
    /\ np_random = [seed |-> GLOBAL_SEED, pos |-> 0]
    /\ validation = Idle
    /\ run = Idle
    /\ subset = Idle
    /\ recommender = Idle

\* Other code draws a number from the global generator.
DrawElsewhere ==
    /\ pc \in {"constructed", "simulated"}
    /\ np_random.pos < MaxDraws
    /\ np_random' = np_random_uniform(np_random).rng
    /\ UNCHANGED <<skills_db, all_skill_ids, pc, validation, run, solver, subset,
                   recommender>>

\* solver.solve_with_uncertainty(max_time, max_complexity, n_simulations)
SolveWithUncertainty ==
    /\ pc = "constructed"
    /\ \E max_time \in (MaxBudget - 1)..MaxBudget, n_simulations \in 1..MaxSimulations :
          LET r == solve_with_uncertainty(skills_db, solver.obj, max_time, MaxBudget,
                                          n_simulations, np_random)
          IN /\ solver' = [obj |-> solver.obj, max_time |-> max_time,
                           max_complexity |-> MaxBudget,
                           n_simulations |-> n_simulations,
                           results |-> <<r.result>>]
             /\ np_random' = r.rng
    /\ pc' = "simulated"
    /\ UNCHANGED <<skills_db, all_skill_ids, validation, run, subset, recommender>>

\* The same call once more, on the same solver with the same arguments.
SolveWithUncertaintyAgain ==
    /\ pc = "simulated"
    /\ LET r == solve_with_uncertainty(skills_db, solver.obj, solver.max_time,
                                       solver.max_complexity, solver.n_simulations,
                                       np_random)
       IN /\ solver' = [solver EXCEPT !.results = Append(@, r.result)]
          /\ np_random' = r.rng
    /\ pc' = "simulated twice"
    /\ UNCHANGED <<skills_db, all_skill_ids, validation, run, subset, recommender>>

\* The same call in another run of the program: gs_config seeds the generator
\* again at import, the solver is built again on the same graph, and the set
\* of required skills iterates in the order of that process.
SolveWithUncertaintyInNewRun ==
    /\ pc = "simulated"
    /\ \E required \in Orders(Range(solver.obj.required_skills)) :
          LET obj == NewSolver(skills_db, TARGET_SKILL, DefaultCap, required)
              rng == [seed |-> GLOBAL_SEED, pos |-> 0]
              r == solve_with_uncertainty(skills_db, obj, solver.max_time,
                                          solver.max_complexity, solver.n_simulations,
                                          rng)
          IN /\ solver' = [solver EXCEPT !.obj = obj,
                                         !.results = Append(@, r.result)]
             /\ np_random' = r.rng
    /\ pc' = "simulated twice"
    /\ UNCHANGED <<skills_db, all_skill_ids, validation, run, subset, recommender>>

NextMC ==
    \/ DrawElsewhere
    \/ SolveWithUncertainty
    \/ SolveWithUncertaintyAgain
    \/ SolveWithUncertaintyInNewRun

SpecMC == InitMC /\ [][NextMC]_vars

---------------------------------------------------------------------------
(* The skill recommender *)

InitRec ==
    /\ skills_db \in RecGraphs
    /\ all_skill_ids = RecSkillIds
    /\ pc = "recommender"
    /\ recommender \in [current_profile : RecProfiles]
    /\ validation = Idle
    /\ run = Idle
    /\ solver = Idle
    /\ subset = Idle
    /\ np_random = Idle

\* recommender.recommend_with_dp(current_profile, max_time, discretization)
RecommendWithDp ==
    /\ pc = "recommender"
    /\ \E max_time \in RecMaxTimes, discretization \in RecDiscretizations :
          recommender' =
              [current_profile |-> recommender.current_profile,
               max_time |-> max_time, discretization |-> discretization,
               dp |-> dp_forward(skills_db, recommender.current_profile,
                                 max_time, discretization),
               log |-> dp_forward_log(skills_db, recommender.current_profile,
                                      max_time, discretization).log,
               result |-> recommend_with_dp(skills_db, recommender.current_profile,
                                            max_time, discretization)]
    /\ pc' = "recommended"
    /\ UNCHANGED <<skills_db, all_skill_ids, validation, run, solver, subset, np_random>>

NextRec == RecommendWithDp

SpecRec == InitRec /\ [][NextRec]_vars

---------------------------------------------------------------------------
(* Graph-theoretic vocabulary of the properties *)

\* The (node, missing prerequisite) pairs of a graph.
DanglingPairs(db) ==
    {<<k, p>> : k \in DOMAIN db, p \in Ids} \cap
    {e \in (DOMAIN db) \X Ids : e[2] \in Range(Prereqs(db, e[1])) /\ e[2] \notin DOMAIN db}

HasDangling(db) == DanglingPairs(db) # {}

\* The prerequisite relation between keys: <<k, p>> when p is a prerequisite of k.
Edges(db) ==
    {e \in (DOMAIN db) \X (DOMAIN db) : e[2] \in Range(Prereqs(db, e[1]))}

RECURSIVE ReachFrom(_, _, _)
ReachFrom(E, frontier, seen) ==
    LET next == {e[2] : e \in {d \in E : d[1] \in frontier}} \ seen IN
    IF next = {} THEN seen ELSE ReachFrom(E, next, seen \cup next)

\* The nodes reached from n along one edge or more.
Reachable(E, n) == ReachFrom(E, {n}, {})

Cyclic(E) == \E e \in E : e[1] \in Reachable(E, e[1])

ConsecutiveIn(s, u, v) == \E i \in 1..(Len(s) - 1) : s[i] = u /\ s[i + 1] = v

\* s lists every element of S once, each after all of its prerequisites.
Linearizes(db, s, S) ==
    /\ Range(s) = S
    /\ NoDup(s)
    /\ \A i \in 1..Len(s) :
          \A p \in Range(Prereqs(db, s[i])) : \E j \in 1..(i - 1) : s[j] = p

RECURSIVE SetSum(_, _, _)
SetSum(db, S, field) ==
    IF S = {} THEN 0
    ELSE LET x == CHOOSE y \in S : TRUE IN db[x][field] + SetSum(db, S \ {x}, field)

\* The transitive prerequisite closure of a target, the target included.
ClosureOf(db, target) == {target} \cup Reachable(Edges(db), target)

\* The node sets some prerequisite-respecting sequence of distinct nodes of
\* the whole graph visits, target included, within the two budgets.
FeasibleSets(db, target, max_time, max_complexity) ==
    {S \in SUBSET (DOMAIN db) :
        /\ target \in S
        /\ \A k \in S : Range(Prereqs(db, k)) \subseteq S
        /\ SetSum(db, S, "Tempo") <= max_time
        /\ SetSum(db, S, "Complexidade") <= max_complexity}

---------------------------------------------------------------------------
(* Properties *)

\* C1: for a graph with a prerequisite that is no key, validate_graph returns
\* a report whose orphan list is exactly the set of (node, missing
\* prerequisite) pairs and whose cycle list is empty.
C1_DanglingReportedExactly ==
    (pc = "validated" /\ HasDangling(skills_db)) =>
        /\ ~validation.out.raised
        /\ Range(validation.out.report.orphan_nodes) = DanglingPairs(skills_db)
        /\ validation.out.report.cycles = <<>>

\* C2: when a prerequisite is missing, validate_graph stops after the orphan
\* check for either value of verbose: no cycle detection, no topological sort,
\* no exception, and it returns (False, report).
C2_HaltsOnDangling ==
    (pc = "validated" /\ HasDangling(skills_db)) =>
        /\ validation.out.executed = <<"orphans">>
        /\ ~validation.out.raised
        /\ validation.out.ret = FALSE

\* C3: without dangling references, the report has a non-empty cycle list and
\* valid = False exactly when the prerequisite relation has a directed cycle
\* (self-loops included), and every edge whose removal leaves the graph acyclic
\* (a single back-edge added to an acyclic graph) lies on the reported cycle.
C3_CycleReportedIffCyclic ==
    (pc = "validated" /\ ~HasDangling(skills_db)) =>
        LET report == validation.out.report
            E == Edges(skills_db)
        IN /\ ~validation.out.raised
           /\ (report.cycles # <<>> /\ report.valid = FALSE) <=> Cyclic(E)
           /\ \A e \in E : (Cyclic(E) /\ ~Cyclic(E \ {e})) =>
                              ConsecutiveIn(report.cycles, e[1], e[2])

\* A cycle of two or more nodes closed by a single back-edge was validated.
C3_Witness ==
    /\ pc = "validated"
    /\ ~HasDangling(skills_db)
    /\ validation.out.report.valid = FALSE
    /\ Len(validation.out.report.cycles) >= 3
    /\ \E e \in Edges(skills_db) :
          e[1] # e[2] /\ ~Cyclic(Edges(skills_db) \ {e})
              /\ ConsecutiveIn(validation.out.report.cycles, e[1], e[2])

\* C4: no optimizer run produces a result for a graph with a dangling
\* prerequisite or a cycle: the run is refused before an optimizer is built.
C4_InvalidGraphRefused ==
    (pc = "ran" /\ (HasDangling(skills_db) \/ Cyclic(Edges(skills_db)))) =>
        run.refused /\ ~run.produced

\* C5: when both checks pass, topological_order holds every node exactly once,
\* each after all of its prerequisites.
C5_TopologicalOrder ==
    (pc = "validated" /\ ~validation.out.raised /\ validation.out.report.valid) =>
        Linearizes(skills_db, validation.out.report.topological_order, Keys)

\* A valid graph of two edges or more whose order is not the iteration order.
C5_Witness ==
    /\ pc = "validated"
    /\ ~validation.out.raised
    /\ validation.out.report.valid
    /\ Cardinality(Edges(skills_db)) >= 2
    /\ Len(validation.out.report.topological_order) = Len(SkillIds)
    /\ validation.out.report.topological_order # all_skill_ids

\* C6: solve_deterministic never succeeds when min_feasible_time > max_time
\* or min_feasible_complexity > max_complexity.
C6_NoSuccessBelowMinimum ==
    (pc = "solved" /\ (\/ solver.obj.min_feasible_time > solver.max_time
                     \/ solver.obj.min_feasible_complexity > solver.max_complexity)) =>
        solver.result.success = FALSE

\* An infeasible time budget with a feasible complexity budget was refused.
C6_Witness ==
    /\ pc = "solved"
    /\ solver.obj.min_feasible_time > solver.max_time
    /\ solver.obj.min_feasible_complexity <= solver.max_complexity
    /\ solver.max_time >= 1
    /\ solver.result.success = FALSE

\* C7: a successful path contains the target, no node twice, and every node
\* after all of its prerequisites.
C7_PathIsLinearization ==
    (pc = "solved" /\ solver.result.success) =>
        LET path == solver.result.path IN
        /\ Contains(path, solver.obj.target)
        /\ Linearizes(skills_db, path, Range(path))

\* A successful path through a target with two prerequisites.
C7_Witness ==
    /\ pc = "solved"
    /\ solver.result.success
    /\ Len(solver.result.path) = 3
    /\ Len(Prereqs(skills_db, solver.obj.target)) = 2

\* C8: with a cap that prunes nothing, a successful total_value is the
\* greatest summed value over the prerequisite-respecting sequences of
\* distinct nodes of the whole graph that include the target and stay within
\* both budgets.
C8_MaximumOverWholeGraph ==
    (pc = "solved" /\ solver.result.success
        /\ solver.obj.max_states_per_cell = DefaultCap) =>
        \A S \in FeasibleSets(skills_db, solver.obj.target,
                              solver.max_time, solver.max_complexity) :
            SetSum(skills_db, S, "Valor") <= solver.result.total_value

\* C9: the failure record of solve_deterministic reports the minimum time and
\* the minimum complexity needed to reach the target.
C9_FailureReportsMinimums ==
    (pc = "solved" /\ solver.result.success = FALSE) =>
        /\ solver.result.message.T = solver.obj.min_feasible_time
        /\ solver.result.message.C = solver.obj.min_feasible_complexity

SubsetsReaching(db, basic_skills, min_adapt) ==
    {S \in SUBSET Range(basic_skills) : SetSum(db, S, "Valor") >= min_adapt}

\* C11: optimal_solution_dp returns None exactly when no subset of the
\* candidates (the empty one included) reaches the threshold; otherwise it
\* returns one of those subsets, and its total_time is that subset's summed
\* time and the least summed time among them.
C11_DpIsMinimumTime ==
    pc = "dp" =>
        LET R == SubsetsReaching(skills_db, subset.basic_skills, subset.min_adapt) IN
        /\ subset.dp.is_none <=> R = {}
        /\ ~subset.dp.is_none =>
              /\ NoDup(subset.dp.selected)
              /\ Range(subset.dp.selected) \in R
              /\ subset.dp.total_time = SetSum(skills_db, Range(subset.dp.selected), "Tempo")
              /\ \A S \in R : subset.dp.total_time <= SetSum(skills_db, S, "Tempo")

\* The DP chose two candidates for a positive threshold, and a value level
\* had been reached before at a greater time (a reaching subset costs more).
C11_Witness ==
    /\ pc = "dp"
    /\ subset.min_adapt > 0
    /\ ~subset.dp.is_none
    /\ Len(subset.dp.selected) = 2
    /\ \E S \in SubsetsReaching(skills_db, subset.basic_skills, subset.min_adapt) :
          /\ SetSum(skills_db, S, "Valor") = subset.dp.total_value
          /\ SetSum(skills_db, S, "Tempo") > subset.dp.total_time

\* C12: for every candidate list and threshold, optimal_solution_bruteforce
\* and optimal_solution_dp both return None or return selections of the same
\* total_time.
C12_BruteforceAgreesWithDp ==
    pc = "bruteforce" =>
        /\ subset.bruteforce.is_none <=> subset.dp.is_none
        /\ ~subset.dp.is_none => subset.bruteforce.total_time = subset.dp.total_time

\* C13: on the dataset of demonstrate_counterexample with its threshold, the
\* greedy solution is the recorded choice, time and value, and the DP solution
\* is the recorded optimal choice, time and value.
C13_CounterexampleAsComputed ==
    (pc = "demonstrated" /\ skills_db = CounterexampleCandidates
        /\ subset.min_adapt = subset.counter.min_adaptability) =>
        /\ subset.greedy.selected = subset.counter.greedy_solution.choice
        /\ subset.greedy.total_time = subset.counter.greedy_solution.time
        /\ subset.greedy.total_value = subset.counter.greedy_solution.value
        /\ ~subset.dp.is_none
        /\ subset.dp.selected = subset.counter.optimal_solution.choice
        /\ subset.dp.total_time = subset.counter.optimal_solution.time
        /\ subset.dp.total_value = subset.counter.optimal_solution.value

\* The counterexample dataset was solved both ways, the candidates listed in
\* an order that is neither the greedy nor the dict order.
C13_Witness ==
    /\ pc = "demonstrated"
    /\ skills_db = CounterexampleCandidates
    /\ subset.min_adapt = 16
    /\ subset.basic_skills = <<"B", "A", "C">>
    /\ subset.greedy.total_time > subset.dp.total_time

\* The nodes a holder of the set held can acquire next at cumulative time t:
\* not held, all prerequisites held, the time cost within the horizon.
Acquirable(db, held, t, horizon) ==
    {k \in DOMAIN db : /\ k \notin held
                       /\ Range(db[k].Pre_Reqs) \subseteq held
                       /\ t + db[k].Tempo <= horizon}

\* The greatest summed expected value over the sequences of distinct nodes
\* that start from the set held at time t, acquire every node after its
\* prerequisites and end within the horizon (the empty sequence is worth 0).
RECURSIVE BestSequenceValue(_, _, _, _)
BestSequenceValue(db, held, t, horizon) ==
    LET values == {0} \cup
            {calculate_expected_value(db, k, held, (t + db[k].Tempo) \div 2000)
                + BestSequenceValue(db, held \cup {k}, t + db[k].Tempo, horizon) :
             k \in Acquirable(db, held, t, horizon)}
    IN CHOOSE v \in values : \A w \in values : w <= v

\* C14: for every time step, optimal_value is the greatest summed expected
\* value over the prerequisite-respecting sequences of distinct nodes not yet
\* held whose total time is within the horizon.
C14_OptimalValueIsMaximum ==
    pc = "recommended" =>
        recommender.result.optimal_value =
            BestSequenceValue(skills_db, recommender.current_profile, 0,
                              horizon_hours(recommender.max_time))

\* C17: the recommendations are the leading nodes of optimal_path in path
\* order, three of them at most (all of the path when it is shorter), and
\* none of them is in current_profile.
C17_RecommendationsLeadThePath ==
    pc = "recommended" =>
        LET recs == recommender.result.recommendations
            path == recommender.result.optimal_path
        IN /\ Len(recs) = (IF Len(path) < 3 THEN Len(path) ELSE 3)
           /\ \A i \in 1..Len(recs) :
                 /\ recs[i].skill_id = path[i]
                 /\ recs[i].skill_id \notin recommender.current_profile

\* An optimal path of four nodes was cut to its first three.
C17_Witness ==
    /\ pc = "recommended"
    /\ Len(recommender.result.optimal_path) = 4
    /\ Len(recommender.result.recommendations) = 3

\* C18: for every time step, every state of the table is expanded: each node
\* outside its set whose prerequisites are in the set and whose time cost
\* stays within the horizon has a successor state in the table, at the
\* state's time plus that cost.
C18_EveryStoredStateExpanded ==
    pc = "recommended" =>
        \A i \in 1..Len(recommender.dp) :
            \A j \in 1..Len(recommender.dp[i].states) :
                LET t == recommender.dp[i].t
                    state == recommender.dp[i].states[j]
                IN \A k \in Acquirable(skills_db, state.skills, t,
                                        horizon_hours(recommender.max_time)) :
                      LET b == TimeIndex(recommender.dp, t + skills_db[k].Tempo)
                      IN /\ b # 0
                         /\ StateIndex(recommender.dp[b].states,
                                       state.skills \cup {k}) # 0

\* C15: two calls of solve_with_uncertainty with the same seed, the same
\* budgets and number of simulations on the same graph return the same
\* sample sequence, and so the same mean, minimum and maximum, whatever was
\* drawn from the generator before each of them.
C15_SameSeedSameSamples ==
    pc = "simulated twice" =>
        LET first == solver.results[1]
            second == solver.results[2]
        IN /\ second.success = first.success
           /\ first.success =>
                 /\ second.simulations = first.simulations
                 /\ second.expected_value = first.expected_value
                 /\ second.min_value = first.min_value
                 /\ second.max_value = first.max_value

C19_ReportedCycleIsClosedWalk ==
    (pc = "validated" /\ ~validation.out.raised
        /\ validation.out.report.cycles # <<>>) =>
        LET cycle == validation.out.report.cycles IN
        /\ cycle[1] = cycle[Len(cycle)]
        /\ \A i \in 1..(Len(cycle) - 1) :
              cycle[i + 1] \in Range(Prereqs(skills_db, cycle[i]))
        /\ \A i \in 1..Len(cycle) :
              cycle[i] \in Reachable(Edges(skills_db), cycle[i])

\* C20: for either value of verbose the flag validate_graph returns is
\* report['valid'], and when a cycle was found the flag is False and the
\* topological order empty.
C20_FlagIsReportValid ==
    (pc = "validated" /\ ~validation.out.raised) =>
        /\ validation.out.ret = validation.out.report.valid
        /\ validation.out.report.cycles # <<>> =>
              /\ validation.out.ret = FALSE
              /\ validation.out.report.topological_order = <<>>

\* The records of every bucket of a table, each with the key it is stored under.
TableStates(dp) == {FlattenDp(dp)[i] : i \in 1..Len(FlattenDp(dp))}

\* Whether the pruning loop of an iteration discarded a record.
Discards(step) ==
    \E i \in 1..Len(step.new_dp) : Len(step.dp[i].states) < Len(step.new_dp[i].states)

\* C21: for any cap, solve_deterministic succeeds exactly when
\* check_feasibility accepts the same budgets; the successful path then holds
\* exactly the prerequisite closure of the target, and its totals are
\* min_feasible_time and min_feasible_complexity.
C21_SuccessIffFeasible ==
    pc = "solved" =>
        LET feasible == check_feasibility(solver.obj, solver.max_time,
                                          solver.max_complexity).feasible
            result == solver.result
        IN /\ result.success <=> feasible
           /\ result.success =>
                 /\ Range(result.path) = ClosureOf(skills_db, solver.obj.target)
                 /\ NoDup(result.path)
                 /\ result.total_time = solver.obj.min_feasible_time
                 /\ result.total_complexity = solver.obj.min_feasible_complexity

\* A run with cap 1 whose pruning discarded a record succeeded on a closure
\* of three skills with budgets that leave no slack in time.
C21_Witness ==
    /\ pc = "solved"
    /\ solver.obj.max_states_per_cell = 1
    /\ \E k \in 1..Len(solver.tables) : Discards(solver.tables[k])
    /\ solver.result.success
    /\ Len(solver.result.path) = 3
    /\ solver.result.total_time = solver.max_time

\* C22: every state of the table, after each processed skill, is stored under
\* the key (summed time, summed complexity) of its visited set, both within
\* the budgets; a successful result's totals are the sums over its path and
\* within the budgets.
C22_KeysAreSumsWithinBudgets ==
    pc = "solved" =>
        /\ \A k \in 1..Len(solver.tables) :
              \A it \in TableStates(solver.tables[k].dp) :
                 /\ it.key[1] = SetSum(skills_db, it.state.skills, "Tempo")
                 /\ it.key[2] = SetSum(skills_db, it.state.skills, "Complexidade")
                 /\ Range(it.state.path) = it.state.skills
                 /\ it.key[1] <= solver.max_time
                 /\ it.key[2] <= solver.max_complexity
        /\ solver.result.success =>
              /\ solver.result.total_time = SumField(skills_db, solver.result.path, "Tempo")
              /\ solver.result.total_complexity
                    = SumField(skills_db, solver.result.path, "Complexidade")
              /\ solver.result.total_value = SumField(skills_db, solver.result.path, "Valor")
              /\ solver.result.total_time <= solver.max_time
              /\ solver.result.total_complexity <= solver.max_complexity

\* A successful run that uses its complexity budget in full and not its time
\* budget, over three skills, whose last table holds three buckets or more.
C22_Witness ==
    /\ pc = "solved"
    /\ solver.result.success
    /\ solver.result.total_complexity = solver.max_complexity
    /\ solver.result.total_time < solver.max_time
    /\ Len(solver.tables) = 3
    /\ Len(solver.tables[3].dp) >= 3

C24_NoDominatedRecordInBucket ==
    pc = "solved" =>
        \A k \in 1..Len(solver.tables) :
           \A i \in 1..Len(solver.tables[k].dp) :
              LET states == solver.tables[k].dp[i].states IN
              \A a, b \in 1..Len(states) : states[a].valor = states[b].valor

\* C25: after the pruning that follows each processed skill every bucket holds
\* at most max_states_per_cell records, and every record kept is worth at least
\* as much as every record of its bucket that was discarded.
C25_CapKeepsHighestValues ==
    pc = "solved" =>
        \A k \in 1..Len(solver.tables) :
           LET step == solver.tables[k] IN
           \A i \in 1..Len(step.dp) :
              LET kept == step.dp[i].states
                  before == step.new_dp[i].states
                  discarded == {j \in 1..Len(before) : before[j] \notin Range(kept)}
              IN /\ step.dp[i].key = step.new_dp[i].key
                 /\ Len(kept) <= solver.obj.max_states_per_cell
                 /\ Range(kept) \subseteq Range(before)
                 /\ Len(kept) = Len(before) - Cardinality(discarded)
                 /\ \A a \in 1..Len(kept) : \A j \in discarded :
                       kept[a].valor >= before[j].valor

\* A bucket whose first record was worth less than its second was cut to one.
C25_Witness ==
    /\ pc = "solved"
    /\ \E k \in 1..Len(solver.tables) :
          \E i \in 1..Len(solver.tables[k].dp) :
             LET before == solver.tables[k].new_dp[i].states IN
             /\ Len(before) >= 2
             /\ before[1].valor < before[2].valor
             /\ Len(solver.tables[k].dp[i].states) = 1

\* The candidates by value / time_cost descending, ties in input order.
RatioOrdered(db, basic_skills) ==
    LET pos(x) == CHOOSE i \in 1..Len(basic_skills) : basic_skills[i] = x
        before(a, b) ==
            \/ db[a].Valor * db[b].Tempo > db[b].Valor * db[a].Tempo
            \/ /\ db[a].Valor * db[b].Tempo = db[b].Valor * db[a].Tempo
               /\ pos(a) < pos(b)
    IN CHOOSE s \in Orders(Range(basic_skills)) :
          \A i, j \in 1..Len(s) : i < j => before(s[i], s[j])

\* C26: greedy_solution selects the shortest prefix of the candidates by
\* value / time_cost descending (ties in input order) whose summed value is at
\* least the threshold; when all candidates together reach the threshold, the
\* returned total_value reaches it and nothing after the accepting item is
\* selected.
C26_GreedyShortestPrefix ==
    pc = "greedy" =>
        LET ordered == RatioOrdered(skills_db, subset.basic_skills)
            prefix(k) == SubSeq(ordered, 1, k)
            reaching == {k \in 0..Len(ordered) :
                            SumField(skills_db, prefix(k), "Valor") >= subset.min_adapt}
            shortest == CHOOSE k \in reaching : \A m \in reaching : k <= m
        IN /\ reaching # {} => subset.greedy.selected = prefix(shortest)
           /\ SumField(skills_db, ordered, "Valor") >= subset.min_adapt =>
                 /\ subset.greedy.total_value >= subset.min_adapt
                 /\ \A k \in 1..(Len(subset.greedy.selected) - 1) :
                       SumField(skills_db, SubSeq(subset.greedy.selected, 1, k), "Valor")
                          < subset.min_adapt

\* C27: when all candidates together stay below the threshold, each of the
\* three solvers reports no solution, and none returns a selection whose
\* total_value is below the threshold.
C27_NoSolutionReported ==
    (pc = "bruteforce"
        /\ SumField(skills_db, subset.basic_skills, "Valor") < subset.min_adapt) =>
        \A r \in {subset.greedy, subset.dp, subset.bruteforce} :
            /\ r.is_none
            /\ ~r.is_none => r.total_value >= subset.min_adapt

\* C28: optimal_path holds no node of current_profile and no node twice, and
\* every prerequisite of a node of it is in current_profile or earlier in it.
C28_PathRespectsPrerequisites ==
    pc = "recommended" =>
        LET path == recommender.result.optimal_path IN
        /\ Range(path) \cap recommender.current_profile = {}
        /\ NoDup(path)
        /\ \A i \in 1..Len(path) :
              \A p \in Range(Prereqs(skills_db, path[i])) :
                 p \in recommender.current_profile \/ \E j \in 1..(i - 1) : path[j] = p

\* An optimal path of three nodes whose last node has a prerequisite held
\* from the start and one acquired on the way.
C28_Witness ==
    /\ pc = "recommended"
    /\ Len(recommender.result.optimal_path) = 3
    /\ LET path == recommender.result.optimal_path
           prereqs == Range(Prereqs(skills_db, path[3]))
       IN /\ prereqs \cap recommender.current_profile # {}
          /\ prereqs \cap {path[1], path[2]} # {}

\* C29: every state of the table is keyed by the summed time cost of its
\* path, no key exceeds min(max_time, horizon_years * 2000), and optimal_time
\* is the summed time cost of optimal_path.
C29_KeysArePathTimes ==
    pc = "recommended" =>
        /\ \A i \in 1..Len(recommender.dp) :
              /\ recommender.dp[i].t <= recommender.max_time
              /\ recommender.dp[i].t <= market_scenarios.horizon_years * 2000
              /\ \A j \in 1..Len(recommender.dp[i].states) :
                    recommender.dp[i].t
                       = SumField(skills_db, recommender.dp[i].states[j].path, "Tempo")
        /\ recommender.result.optimal_time
              = SumField(skills_db, recommender.result.optimal_path, "Tempo")

\* A run whose horizon cut an acquirable node off: a state of the table has a
\* node it could acquire but for the time, and the optimal path ends at the
\* horizon exactly.
C29_Witness ==
    /\ pc = "recommended"
    /\ recommender.result.optimal_time = horizon_hours(recommender.max_time)
    /\ \E i \in 1..Len(recommender.dp) :
          \E j \in 1..Len(recommender.dp[i].states) :
             \E k \in DOMAIN skills_db :
                /\ k \notin recommender.dp[i].states[j].skills
                /\ Range(Prereqs(skills_db, k)) \subseteq recommender.dp[i].states[j].skills
                /\ recommender.dp[i].t + skills_db[k].Tempo
                      > horizon_hours(recommender.max_time)

\* C30: in the forward loop no entry is written after its state was expanded:
\* every successor goes to a later time than the state it comes from, an
\* entry is replaced only by a greater value, and a state is expanded with the
\* greatest value generated for its key in the whole run.
C30_NoWriteAfterExpansion ==
    pc = "recommended" =>
        LET log == recommender.log
            same(a, b) == log[a].t = log[b].t /\ log[a].skills = log[b].skills
        IN \A i \in 1..Len(log) :
              /\ log[i].kind = "generate" =>
                    /\ log[i].t > log[i].from
                    /\ (log[i].stored /\ log[i].had) => log[i].value > log[i].old
                    /\ (~log[i].stored) => log[i].value <= log[i].old
                    /\ \A e \in 1..(i - 1) : ~(log[e].kind = "expand" /\ same(e, i))
              /\ log[i].kind = "expand" =>
                    \A g \in 1..Len(log) :
                       (log[g].kind = "generate" /\ same(g, i)) =>
                           log[g].value <= log[i].value

\* A state was expanded whose entry had been replaced by a greater value
\* before the loop came to it.
C30_Witness ==
    /\ pc = "recommended"
    /\ \E g, x \in 1..Len(recommender.log) :
          /\ g < x
          /\ recommender.log[g].kind = "generate"
          /\ recommender.log[g].had
          /\ recommender.log[g].stored
          /\ recommender.log[x].kind = "expand"
          /\ recommender.log[x].t = recommender.log[g].t
          /\ recommender.log[x].skills = recommender.log[g].skills
          /\ recommender.log[x].value = recommender.log[g].value

=============================================================================
